---- MODULE Spec2Model ----
(***************************************************************************)
(* The scheduling core of cw-croncat (contracts/cw-croncat/src/tasks.rs):  *)
(* the task catalog, the two slot indices, the aggregate ledger and the    *)
(* three writing entry points create_task, remove_task and refill_task.    *)
(***************************************************************************)
EXTENDS Integers, Sequences, FiniteSets, TLC

(***************************************************************************)
(* Bounds of the model.                                                    *)
(***************************************************************************)
\* the last block height the chain is followed to
MaxHeight == 2
\* the largest value the task total counter is followed to
MaxTotal == 2
\* the largest total of the ledger, over its denominations, that is followed
MaxLedger == 2

\* the largest catalog, short of the listing ceiling, that listings are
\* drawn from
MaxCatalog == 2

(***************************************************************************)
(* Constants of the program.                                               *)
(***************************************************************************)
\* query_get_tasks: the most items one listing returns
size_ceiling == 1000

\* query_get_tasks: the limit taken when the caller gives none
default_limit == 100

(***************************************************************************)
(* Values.                                                                 *)
(***************************************************************************)
\* Option<T>: None is the empty sequence, Some(x) the sequence <<x>>
None == <<>>

Some(x) == <<x>>

\* senders of messages; the first two own tasks
Owners == {"alice", "bob"}

\* the contract's own address and its admin (Config.owner_id)
ContractAddr == "croncat"

Denoms == {"atom", "moon"}

Coin(a, d) == [amount |-> a, denom |-> d]

\* Interval::{Once, Immediate, Block(n), Cron(text)}; a cron text is
\* stood for by its period in time units, 0 standing for a text that does
\* not parse
IntervalSeq ==
    << [kind |-> "Immediate", n |-> 0],
       [kind |-> "Once", n |-> 0],
       [kind |-> "Block", n |-> 1],
       [kind |-> "Block", n |-> 0],
       [kind |-> "Cron", n |-> 2],
       [kind |-> "Cron", n |-> 0] >>

\* Boundary {start, end}; BoundarySpec::Height(v)
BoundarySeq ==
    << [start |-> None, end |-> None],
       [start |-> None, end |-> Some([kind |-> "Height", v |-> 2])] >>

\* Vec<Action>: the target of each action's message
ActionsSeq == << <<"staking">>, <<ContractAddr>> >>

RulesSeq == << None >>

OwnerSeq == << "alice", "bob" >>

BoolSeq == << FALSE, TRUE >>

IndexOf(seq, x) == CHOOSE i \in 1..Len(seq) : seq[i] = x

Range(seq) == {seq[i] : i \in 1..Len(seq)}

\* TaskRequest {interval, boundary, stop_on_fail, actions, rules}
Request(interval, boundary, actions) ==
    [interval |-> interval, boundary |-> boundary, stop_on_fail |-> FALSE,
     actions |-> actions, rules |-> None]

\* runs at the next block, for ever
ReqImmediate == Request(IntervalSeq[1], BoundarySeq[1], ActionsSeq[1])

\* runs every block up to height 2
ReqBlockEnd == Request(IntervalSeq[3], BoundarySeq[2], ActionsSeq[1])

\* runs at every second time unit
ReqCron == Request(IntervalSeq[5], BoundarySeq[1], ActionsSeq[1])

\* calls back into the contract
ReqSelf == Request(IntervalSeq[2], BoundarySeq[1], ActionsSeq[2])

\* a block interval of zero
ReqBlockZero == Request(IntervalSeq[4], BoundarySeq[1], ActionsSeq[1])

\* a cron text that does not parse
ReqCronBad == Request(IntervalSeq[6], BoundarySeq[1], ActionsSeq[1])

\* the (sender, request) pairs create_task is called with
CreateInputs ==
    { << "alice", ReqBlockEnd >>, << "alice", ReqCron >>,
      << "alice", ReqSelf >>, << "alice", ReqBlockZero >>,
      << "alice", ReqCronBad >>, << "bob", ReqImmediate >> }

\* MessageInfo.funds: the coins attached to a call
FundsSet ==
    { <<>>,
      << Coin(1, "atom") >>,
      << Coin(1, "atom"), Coin(1, "moon") >> }

VARIABLES
    tasks,          \* CwCroncat.tasks: task hash -> Task
    task_total,     \* CwCroncat.task_total
    block_slots,    \* CwCroncat.block_slots: slot id -> list of hashes
    time_slots,     \* CwCroncat.time_slots: slot id -> list of hashes
    config,         \* Config: paused, available_balance, nomination time
    num_agents,     \* length of CwCroncat.agent_active_queue
    env,            \* Env.block: height and time
    last            \* the outcome of the last call

vars == << tasks, task_total, block_slots, time_slots, config, num_agents,
           env, last >>

\* the part of the state the writing entry points own
store == << tasks, task_total, block_slots, time_slots, config >>

(***************************************************************************)
(* Maps of the persistent store (cw-storage-plus Map): a function whose    *)
(* domain is the set of stored keys.                                       *)
(***************************************************************************)
EmptyMap == [k \in {} |-> k]

Put(m, k, v) == [x \in (DOMAIN m) \cup {k} |-> IF x = k THEN v ELSE m[x]]

\* Map::remove leaving the key in the map
Del_keeping(m, k) == m

\* Map::remove
Del(m, k) == [x \in (DOMAIN m) \ {k} |-> m[x]]

\* may_load finding nothing under any key
may_load_none(m, k) == None

\* Map::may_load
may_load(m, k) == IF k \in DOMAIN m THEN Some(m[k]) ELSE None

(***************************************************************************)
(* Collaborators of tasks.rs that live in other files of the repository.   *)
(***************************************************************************)
\* the rank of an interval: its place in IntervalSeq, and past those the
\* block intervals of 2 and more, one after the other
interval_rank(interval) ==
    IF interval \in Range(IntervalSeq)
    THEN IndexOf(IntervalSeq, interval)
    ELSE Len(IntervalSeq) + interval.n - 1

\* Task::to_hash: a digest of the identity fields; total_deposit is not
\* among them.  The digest is stood for by the rank of the identity in the
\* product of the field universes, which is injective like the digest.
to_hash(task) ==
    1 + (IndexOf(OwnerSeq, task.owner_id) - 1)
      + Len(OwnerSeq) * ((IndexOf(BoundarySeq, task.boundary) - 1)
      + Len(BoundarySeq) * ((IndexOf(BoolSeq, task.stop_on_fail) - 1)
      + Len(BoolSeq) * ((IndexOf(ActionsSeq, task.actions) - 1)
      + Len(ActionsSeq) * ((IndexOf(RulesSeq, task.rules) - 1)
      + Len(RulesSeq) * (interval_rank(task.interval) - 1)))))

\* Task::is_valid_msg: no action may call back into this contract
is_valid_msg(task, contract_addr) ==
    \A i \in 1..Len(task.actions) : task.actions[i] # contract_addr

\* Interval::is_valid: the cron text parses, the block interval is not zero
is_valid(interval) ==
    CASE interval.kind = "Cron" -> interval.n # 0
      [] interval.kind = "Block" -> interval.n # 0
      [] OTHER -> TRUE

\* whether a slot id lies past boundary.end
PastEnd(id, kind, boundary) ==
    /\ boundary.end # None
    /\ boundary.end[1].kind = kind
    /\ id > boundary.end[1].v

\* Interval::next: (next slot id, slot kind); id 0 says the schedule ended
next(interval, e, boundary) ==
    LET kind == IF interval.kind = "Cron" THEN "Cron" ELSE "Block"
        id == CASE interval.kind = "Immediate" -> e.height + 1
                [] interval.kind = "Once" -> e.height + 1
                [] interval.kind = "Block" -> e.height + interval.n
                [] OTHER -> (e.time \div interval.n) * interval.n + interval.n
    IN IF PastEnd(id, IF kind = "Cron" THEN "Time" ELSE "Height", boundary)
       THEN << 0, kind >>
       ELSE << id, kind >>

\* CwCroncat::increment_tasks
increment_tasks(total) == total + 1

\* CwCroncat::agents_to_let_in: how many more agents the task load asks for
agents_to_let_in(min_tasks_per_agent, num_active_agents, total_tasks) ==
    LET covered == num_active_agents * min_tasks_per_agent
    IN IF total_tasks > covered
       THEN (total_tasks - covered + min_tasks_per_agent - 1)
                \div min_tasks_per_agent
       ELSE 0

\* the amount of one denomination in a list of coins
RECURSIVE AmountOf(_, _)
AmountOf(coins, d) ==
    IF coins = <<>> THEN 0
    ELSE (IF Head(coins).denom = d THEN Head(coins).amount ELSE 0)
         + AmountOf(Tail(coins), d)

\* GenericBalance::add_tokens: each coin is added to its denomination
add_tokens(balance, coins) ==
    [d \in Denoms |-> balance[d] + AmountOf(coins, d)]

\* GenericBalance::minus_tokens is defined when no entry would go below 0
can_minus_tokens(balance, coins) ==
    \A d \in Denoms : AmountOf(coins, d) <= balance[d]

\* GenericBalance::minus_tokens: each coin is taken from its denomination
minus_tokens(balance, coins) ==
    [d \in Denoms |-> balance[d] - AmountOf(coins, d)]

(***************************************************************************)
(* tasks.rs                                                                *)
(***************************************************************************)
\* the outcome record of a call; Response attributes and messages included
Outcome(op, result, err, caller, funds, hash) ==
    [op |-> op, result |-> result, err |-> err, caller |-> caller,
     funds |-> funds, task_hash |-> hash, slot_id |-> 0, slot_kind |-> "",
     total_deposit |-> <<>>, messages |-> <<>>]

\* the outcome of a call that ended in an error
Failure(op, result, err) == Outcome(op, result, err, "", <<>>, 0)

\* NewTask leaving the deposit of the task empty
NewTask_no_deposit(sender, funds, task) ==
    [owner_id |-> sender,
     interval |-> task.interval,
     boundary |-> task.boundary,
     stop_on_fail |-> task.stop_on_fail,
     total_deposit |-> <<>>,
     actions |-> task.actions,
     rules |-> task.rules]

\* create_task: the Task built from the request, the sender and the funds
NewTask(sender, funds, task) ==
    [owner_id |-> sender,
     interval |-> task.interval,
     boundary |-> task.boundary,
     stop_on_fail |-> task.stop_on_fail,
     total_deposit |-> funds,
     actions |-> task.actions,
     rules |-> task.rules]

\* create_task_error without the look-up of the hash in the catalog
create_task_error_no_lookup(funds, c, item, e, catalog) ==
    IF funds = <<>> THEN "Must attach funds"
    ELSE IF c.paused THEN "Create task paused"
    ELSE IF ~is_valid_msg(item, ContractAddr) THEN "Actions Message Unsupported"
    ELSE IF ~is_valid(item.interval) THEN "Interval invalid"
    ELSE IF next(item.interval, e, item.boundary)[1] = 0 THEN "Task ended"
    ELSE ""

\* create_task_error without the check of the resolved slot id
create_task_error_no_end(funds, c, item, e, catalog) ==
    IF funds = <<>> THEN "Must attach funds"
    ELSE IF c.paused THEN "Create task paused"
    ELSE IF ~is_valid_msg(item, ContractAddr) THEN "Actions Message Unsupported"
    ELSE IF ~is_valid(item.interval) THEN "Interval invalid"
    ELSE IF to_hash(item) \in DOMAIN catalog THEN "Task already exists"
    ELSE ""

\* create_task_error without the check of the paused flag
create_task_error_no_pause(funds, c, item, e, catalog) ==
    IF funds = <<>> THEN "Must attach funds"
    ELSE IF ~is_valid_msg(item, ContractAddr) THEN "Actions Message Unsupported"
    ELSE IF ~is_valid(item.interval) THEN "Interval invalid"
    ELSE IF next(item.interval, e, item.boundary)[1] = 0 THEN "Task ended"
    ELSE IF to_hash(item) \in DOMAIN catalog THEN "Task already exists"
    ELSE ""

\* create_task_error looking the hash up in the catalog before the check of
\* the resolved slot id
create_task_error_lookup_first(funds, c, item, e, catalog) ==
    IF funds = <<>> THEN "Must attach funds"
    ELSE IF c.paused THEN "Create task paused"
    ELSE IF ~is_valid_msg(item, ContractAddr) THEN "Actions Message Unsupported"
    ELSE IF ~is_valid(item.interval) THEN "Interval invalid"
    ELSE IF to_hash(item) \in DOMAIN catalog THEN "Task already exists"
    ELSE IF next(item.interval, e, item.boundary)[1] = 0 THEN "Task ended"
    ELSE ""

\* create_task: the error the checks end in, "" when all of them pass
create_task_error(funds, c, item, e, catalog) ==
    IF funds = <<>> THEN "Must attach funds"
    ELSE IF c.paused THEN "Create task paused"
    ELSE IF ~is_valid_msg(item, ContractAddr) THEN "Actions Message Unsupported"
    ELSE IF ~is_valid(item.interval) THEN "Interval invalid"
    ELSE IF next(item.interval, e, item.boundary)[1] = 0 THEN "Task ended"
    ELSE IF to_hash(item) \in DOMAIN catalog THEN "Task already exists"
    ELSE ""

\* update_vec_data putting the new hash in place of the list
update_vec_data_replacing(d, hash) == << hash >>

\* create_task: the closure that adds the new hash to a slot's list
update_vec_data(d, hash) ==
    IF d # None THEN Append(d[1], hash) ELSE << hash >>

\* Map::update of a slot index with update_vec_data
push_slot(slots, next_id, hash) ==
    Put(slots, next_id, update_vec_data(may_load(slots, next_id), hash))

\* create_block_slots pushing the hash into the slot before the resolved one
create_block_slots_one_early(slots, slot_kind, next_id, hash) ==
    IF slot_kind = "Block" THEN push_slot(slots, next_id - 1, hash) ELSE slots

\* create_task: the block slots after the match on slot_kind
create_block_slots(slots, slot_kind, next_id, hash) ==
    IF slot_kind = "Block" THEN push_slot(slots, next_id, hash) ELSE slots

\* create_time_slots pushing the hash whatever the slot kind
create_time_slots_always(slots, slot_kind, next_id, hash) ==
    push_slot(slots, next_id, hash)

\* create_task: the time slots after the match on slot_kind
create_time_slots(slots, slot_kind, next_id, hash) ==
    IF slot_kind = "Cron" THEN push_slot(slots, next_id, hash) ELSE slots

\* create_config stamping the nomination time whatever the demand and
\* whatever stamp there is
create_config_stamping_always(c, funds, size, agents, e) ==
    [c EXCEPT !.available_balance = add_tokens(@, funds),
              !.agent_nomination_begin_time = Some(e.time)]

\* create_task: Config after the funds are added and the agent demand is
\* looked at
create_config(c, funds, size, agents, e) ==
    LET c1 == [c EXCEPT !.available_balance = add_tokens(@, funds)]
        num_agents_to_accept ==
            agents_to_let_in(c1.min_tasks_per_agent, agents, size)
    IN IF num_agents_to_accept # 0 /\ c1.agent_nomination_begin_time = None
       THEN [c1 EXCEPT !.agent_nomination_begin_time = Some(e.time)]
       ELSE c1

\* retain filling the place of task_hash with the last hash of the list, as
\* Vec::swap_remove does
retain_swap_remove(hashes, task_hash) ==
    IF \E i \in 1..Len(hashes) : hashes[i] = task_hash
    THEN LET i == CHOOSE j \in 1..Len(hashes) : hashes[j] = task_hash
         IN SubSeq([hashes EXCEPT ![i] = hashes[Len(hashes)]],
                   1, Len(hashes) - 1)
    ELSE hashes

\* Vec::retain: the hashes of a slot other than task_hash, in their order
retain(hashes, task_hash) ==
    SelectSeq(hashes, LAMBDA h : h # task_hash)

\* scrub_slots leaving the index as it is
scrub_slots_skipped(slots, task_hash) == slots

\* scrub_slots saving the slots whose list ends empty
scrub_slots_saving_empty(slots, task_hash) ==
    [id \in DOMAIN slots |-> retain(slots[id], task_hash)]

\* remove_task: one slot index after the loop over its slot ids; a slot
\* whose list ends empty is removed, any other is saved
scrub_slots(slots, task_hash) ==
    LET kept == {id \in DOMAIN slots : retain(slots[id], task_hash) # <<>>}
    IN [id \in kept |-> retain(slots[id], task_hash)]

\* refill_entry pushing the attached amount in place of the sum
RECURSIVE refill_entry_no_sum(_, _)
refill_entry_no_sum(t, funds) ==
    IF funds = <<>> THEN <<>>
    ELSE << (IF Head(funds).denom = t.denom
             THEN Coin(Head(funds).amount, t.denom)
             ELSE t) >>
         \o refill_entry_no_sum(t, Tail(funds))

\* refill_task: the inner loop over the attached funds for one deposit entry
RECURSIVE refill_entry(_, _)
refill_entry(t, funds) ==
    IF funds = <<>> THEN <<>>
    ELSE << (IF Head(funds).denom = t.denom
             THEN Coin(t.amount + Head(funds).amount, t.denom)
             ELSE t) >>
         \o refill_entry(t, Tail(funds))

\* refill_task: total_balance after the loop over the deposit
RECURSIVE refill_total_balance(_, _)
refill_total_balance(deposit, funds) ==
    IF deposit = <<>> THEN <<>>
    ELSE refill_entry(Head(deposit), funds)
         \o refill_total_balance(Tail(deposit), funds)

\* refill_task: the text of the total_deposit attribute, the coins written
\* one after the other as amount and denomination
RECURSIVE coins_total(_)
coins_total(deposit) ==
    IF deposit = <<>> THEN <<>>
    ELSE << Head(deposit).amount, Head(deposit).denom >>
         \o coins_total(Tail(deposit))

\* refill_tasks saving the new deposit into every task of the catalog
refill_tasks_every_key(catalog, hash, total_balance) ==
    [h \in DOMAIN catalog |->
        [catalog[h] EXCEPT !.total_deposit = total_balance]]

\* refill_task: the catalog after the task is saved with its new deposit
refill_tasks(catalog, hash, total_balance) ==
    [catalog EXCEPT ![hash].total_deposit = total_balance]

\* query_get_task: the TaskResponse of the task stored under task_hash
query_get_task(catalog, task_hash) ==
    LET res == may_load(catalog, task_hash)
    IN IF res = None THEN None
       ELSE Some([task_hash |-> to_hash(res[1]),
                  owner_id |-> res[1].owner_id,
                  interval |-> res[1].interval,
                  boundary |-> res[1].boundary,
                  stop_on_fail |-> res[1].stop_on_fail,
                  total_deposit |-> res[1].total_deposit,
                  actions |-> res[1].actions,
                  rules |-> res[1].rules])

\* Option::unwrap_or
unwrap_or(opt, default) == IF opt = None THEN default ELSE opt[1]

Min(a, b) == IF a <= b THEN a ELSE b

\* a power of two no key of keys lies above
RECURSIVE KeyCeiling(_, _)
KeyCeiling(keys, b) ==
    IF \A k \in keys : k <= b THEN b ELSE KeyCeiling(keys, 2 * b)

\* the keys between lo and hi in ascending order
RECURSIVE Ascending(_, _, _)
Ascending(keys, lo, hi) ==
    IF keys = {} THEN <<>>
    ELSE IF lo = hi THEN << lo >>
    ELSE LET mid == (lo + hi) \div 2
         IN Ascending({k \in keys : k <= mid}, lo, mid)
            \o Ascending({k \in keys : k > mid}, mid + 1, hi)

\* the keys between lo and hi in descending order
RECURSIVE Descending(_, _, _)
Descending(keys, lo, hi) ==
    IF keys = {} THEN <<>>
    ELSE IF lo = hi THEN << lo >>
    ELSE LET mid == (lo + hi) \div 2
         IN Descending({k \in keys : k > mid}, mid + 1, hi)
            \o Descending({k \in keys : k <= mid}, lo, mid)

\* range running from the largest key down
range_descending(m) == Descending(DOMAIN m, 1, KeyCeiling(DOMAIN m, 1))

\* Map::range(None, None, Order::Ascending): the stored keys in the order
\* of the key
range(m) == Ascending(DOMAIN m, 1, KeyCeiling(DOMAIN m, 1))

\* a u64 too large for the integers of the model is held in two parts:
\* U64(hi, lo) is hi * 2^32 + lo, with lo below 2^31
U64(hi, lo) == [hi |-> hi, lo |-> lo]

\* the widths usize has: 32 bits in the wasm32 build a contract is deployed
\* as, 64 bits in the native build the tests run in
UsizeBits == {32, 64}

\* Iterator::skip(from_index as usize): the cast to a 32 bit usize keeps
\* the low 32 bits; a 64 bit usize keeps the value, and a skip of 2^32 or
\* more leaves nothing of a list the store can hold
skip(seq, from_index, usize_bits) ==
    IF usize_bits = 64 /\ from_index.hi # 0 THEN <<>>
    ELSE SubSeq(seq, from_index.lo + 1, Len(seq))

\* Iterator::take(limit as usize); the limit is at most 1000 by then
take(seq, limit) == SubSeq(seq, 1, Min(limit, Len(seq)))

\* TaskResponse with a digest that takes the deposit in
TaskResponse_hash_with_deposit(task) ==
    [task_hash |-> to_hash(task) + Len(task.total_deposit),
     owner_id |-> task.owner_id,
     interval |-> task.interval,
     boundary |-> task.boundary,
     stop_on_fail |-> task.stop_on_fail,
     total_deposit |-> task.total_deposit,
     actions |-> task.actions,
     rules |-> task.rules]

\* the TaskResponse the queries build from a stored task
TaskResponse(task) ==
    [task_hash |-> to_hash(task),
     owner_id |-> task.owner_id,
     interval |-> task.interval,
     boundary |-> task.boundary,
     stop_on_fail |-> task.stop_on_fail,
     total_deposit |-> task.total_deposit,
     actions |-> task.actions,
     rules |-> task.rules]

\* query_get_tasks: the limit after the clamps
query_get_tasks_limit(total, limit) ==
    LET size == Min(total, size_ceiling)
    IN Min(unwrap_or(limit, default_limit), size)

\* pub(crate) fn query_get_tasks
query_get_tasks(catalog, total, from_index, limit, usize_bits) ==
    LET from == unwrap_or(from_index, U64(0, 0))
        lim == query_get_tasks_limit(total, limit)
        keys == take(skip(range(catalog), from, usize_bits), lim)
    IN [i \in 1..Len(keys) |-> TaskResponse(catalog[keys[i]])]

\* the owner index of the catalog (tasks.idx.owner): the keys of the tasks
\* of owner_id
owner_prefix(catalog, owner_id) ==
    [k \in {h \in DOMAIN catalog : catalog[h].owner_id = owner_id} |->
        catalog[k]]

\* query_get_tasks_by_owner ranging over the catalog in place of the prefix
\* of the owner
query_get_tasks_by_owner_no_prefix(catalog, owner_id) ==
    LET keys == range(catalog)
    IN [i \in 1..Len(keys) |-> TaskResponse(catalog[keys[i]])]

\* pub(crate) fn query_get_tasks_by_owner
query_get_tasks_by_owner(catalog, owner_id) ==
    LET sub == owner_prefix(catalog, owner_id)
        keys == range(sub)
    IN [i \in 1..Len(keys) |-> TaskResponse(sub[keys[i]])]

\* String::from_utf8(b.to_vec()).unwrap_or_else(|_| ""): a slot holds the
\* bytes of the text of a hash, which always read back as that text
hash_string(b) == b

\* the texts of the hashes of a slot list, in the order of the list
hash_strings(hashes) == [i \in 1..Len(hashes) |-> hash_string(hashes[i])]

\* first_slot taking the slot of the largest id
first_slot_largest(slots) ==
    LET ids == range_descending(slots)
    IN IF ids = <<>> THEN << 0, <<>> >> ELSE << ids[1], slots[ids[1]] >>

\* query_slot_tasks: range(.., Order::Ascending).take(1) of a slot index:
\* the id and the list of its first slot, id 0 and no hash when it has none
first_slot(slots) ==
    LET ids == range(slots)
    IN IF ids = <<>> THEN << 0, <<>> >> ELSE << ids[1], slots[ids[1]] >>

\* pub(crate) fn query_slot_tasks: (block id, block hashes, time id, time
\* hashes); with a slot given both lists are loaded from block_slots
query_slot_tasks(blocks, times, slot) ==
    IF slot # None
    THEN LET id == slot[1]
             block_hashes == unwrap_or(may_load(blocks, id), <<>>)
             time_hashes == unwrap_or(may_load(blocks, id), <<>>)
             block_id == IF block_hashes # <<>> THEN id ELSE 0
             time_id == IF time_hashes # <<>> THEN id ELSE 0
         IN << block_id, hash_strings(block_hashes),
               time_id, hash_strings(time_hashes) >>
    ELSE LET time == first_slot(times)
             block == first_slot(blocks)
         IN << block[1], hash_strings(block[2]),
               time[1], hash_strings(time[2]) >>

\* query_slot_ids giving the block ids first
query_slot_ids_swapped(times, blocks) == << range(blocks), range(times) >>

\* pub(crate) fn query_slot_ids: (time ids, block ids)
query_slot_ids(times, blocks) == << range(times), range(blocks) >>

\* what the model follows of the ledger: its total over the denominations
InBounds(balance) == balance["atom"] + balance["moon"] <= MaxLedger

\* a hash that is never stored: that of a task whose cron text does not
\* parse
AbsentHash == to_hash(NewTask("alice", <<>>, ReqCronBad))

\* the hashes callers pass to remove_task and refill_task: those of the
\* stored tasks and one that is absent
HashInputs == (DOMAIN tasks) \cup {AbsentHash}

Init ==
    /\ tasks = EmptyMap
    /\ task_total = 0
    /\ block_slots = EmptyMap
    /\ time_slots = EmptyMap
    /\ config = [paused |-> FALSE,
                 available_balance |-> [d \in Denoms |-> 0],
                 min_tasks_per_agent |-> 1,
                 agent_nomination_begin_time |-> None]
    /\ num_agents = 1
    /\ env = [height |-> 1, time |-> 1]
    /\ last = Outcome("instantiate", "ok", "", "", <<>>, 0)

\* create_task counting the task before the catalog refuses it
create_task_counting_first(sender, funds, task) ==
    LET item == NewTask(sender, funds, task)
        err == create_task_error(funds, config, item, env, tasks)
        hash == to_hash(item)
        nx == next(item.interval, env, item.boundary)
        size == increment_tasks(task_total)
        c2 == create_config(config, funds, size, num_agents, env)
    IN \/ /\ err # ""
          /\ task_total' = IF err = "Task already exists"
                           THEN size ELSE task_total
          /\ last' = Failure("create_task", "err", err)
          /\ UNCHANGED << tasks, block_slots, time_slots, config,
                          num_agents, env >>
       \/ /\ err = ""
          /\ size <= MaxTotal
          /\ InBounds(c2.available_balance)
          /\ tasks' = Put(tasks, hash, item)
          /\ task_total' = size
          /\ block_slots' = create_block_slots(block_slots, nx[2], nx[1], hash)
          /\ time_slots' = create_time_slots(time_slots, nx[2], nx[1], hash)
          /\ config' = c2
          /\ last' = [Outcome("create_task", "ok", "", sender, funds, hash)
                         EXCEPT !.slot_id = nx[1], !.slot_kind = nx[2]]
          /\ UNCHANGED << num_agents, env >>

\* pub fn create_task
create_task(sender, funds, task) ==
    LET item == NewTask(sender, funds, task)
        c == config
        err == create_task_error(funds, c, item, env, tasks)
        hash == to_hash(item)
        nx == next(item.interval, env, item.boundary)
        next_id == nx[1]
        slot_kind == nx[2]
        size == increment_tasks(task_total)
        c2 == create_config(c, funds, size, num_agents, env)
    IN \/ /\ err # ""
          /\ last' = Failure("create_task", "err", err)
          /\ UNCHANGED << store, num_agents, env >>
       \/ /\ err = ""
          /\ size <= MaxTotal
          /\ InBounds(c2.available_balance)
          /\ tasks' = Put(tasks, hash, item)
          /\ task_total' = size
          /\ block_slots' = create_block_slots(block_slots, slot_kind, next_id, hash)
          /\ time_slots' = create_time_slots(time_slots, slot_kind, next_id, hash)
          /\ config' = c2
          /\ last' = [Outcome("create_task", "ok", "", sender, funds, hash)
                         EXCEPT !.slot_id = next_id, !.slot_kind = slot_kind]
          /\ UNCHANGED << num_agents, env >>

\* remove_task taking the removed task off the counter
remove_task_counting_down(sender, task_hash, delivered) ==
    LET task_raw == may_load(tasks, task_hash)
        task == task_raw[1]
        submsgs == [to_address |-> task.owner_id, amount |-> task.total_deposit]
    IN \/ /\ task_raw = None
          /\ last' = Outcome("remove_task", "err", "No task found by hash",
                              "", <<>>, task_hash)
          /\ UNCHANGED << store, num_agents, env >>
       \/ /\ task_raw # None
          /\ can_minus_tokens(config.available_balance, task.total_deposit)
          /\ delivered
          /\ tasks' = Del(tasks, task_hash)
          /\ time_slots' = scrub_slots(time_slots, task_hash)
          /\ block_slots' = scrub_slots(block_slots, task_hash)
          /\ config' = [config EXCEPT !.available_balance =
                            minus_tokens(@, task.total_deposit)]
          /\ task_total' = task_total - 1
          /\ last' = [Outcome("remove_task", "ok", "", sender, <<>>, task_hash)
                         EXCEPT !.messages = << submsgs >>]
          /\ UNCHANGED << num_agents, env >>

\* remove_task refusing every sender but the owner of the task
remove_task_owner_only(sender, task_hash, delivered) ==
    LET task_raw == may_load(tasks, task_hash)
        task == task_raw[1]
        submsgs == [to_address |-> task.owner_id, amount |-> task.total_deposit]
    IN \/ /\ task_raw = None
          /\ last' = Outcome("remove_task", "err", "No task found by hash",
                              "", <<>>, task_hash)
          /\ UNCHANGED << store, num_agents, env >>
       \/ /\ task_raw # None
          /\ task.owner_id # sender
          /\ last' = Outcome("remove_task", "err", "Unauthorized",
                              sender, <<>>, task_hash)
          /\ UNCHANGED << store, num_agents, env >>
       \/ /\ task_raw # None
          /\ task.owner_id = sender
          /\ ~can_minus_tokens(config.available_balance, task.total_deposit)
          /\ last' = Outcome("remove_task", "reverted", "ledger below deposit",
                              "", <<>>, task_hash)
          /\ UNCHANGED << store, num_agents, env >>
       \/ /\ task_raw # None
          /\ task.owner_id = sender
          /\ can_minus_tokens(config.available_balance, task.total_deposit)
          /\ ~delivered
          /\ last' = [Outcome("remove_task", "reverted", "refund not delivered",
                              sender, <<>>, task_hash)
                         EXCEPT !.messages = << submsgs >>]
          /\ UNCHANGED << store, num_agents, env >>
       \/ /\ task_raw # None
          /\ task.owner_id = sender
          /\ can_minus_tokens(config.available_balance, task.total_deposit)
          /\ delivered
          /\ tasks' = Del(tasks, task_hash)
          /\ time_slots' = scrub_slots(time_slots, task_hash)
          /\ block_slots' = scrub_slots(block_slots, task_hash)
          /\ config' = [config EXCEPT !.available_balance =
                            minus_tokens(@, task.total_deposit)]
          /\ last' = [Outcome("remove_task", "ok", "", sender, <<>>, task_hash)
                         EXCEPT !.messages = << submsgs >>]
          /\ UNCHANGED << task_total, num_agents, env >>

\* pub fn remove_task; delivered says whether the host could carry out the
\* BankMsg::Send the response queues with SubMsg::new: when it cannot, or
\* when the ledger cannot give the deposit back, the host drops every write
\* of the call
remove_task(sender, task_hash, delivered) ==
    LET task_raw == may_load(tasks, task_hash)
        task == task_raw[1]
        submsgs == [to_address |-> task.owner_id, amount |-> task.total_deposit]
    IN \/ /\ task_raw = None
          /\ last' = Outcome("remove_task", "err", "No task found by hash",
                              "", <<>>, task_hash)
          /\ UNCHANGED << store, num_agents, env >>
       \/ /\ task_raw # None
          /\ ~can_minus_tokens(config.available_balance, task.total_deposit)
          /\ last' = Outcome("remove_task", "reverted", "ledger below deposit",
                              "", <<>>, task_hash)
          /\ UNCHANGED << store, num_agents, env >>
       \/ /\ task_raw # None
          /\ can_minus_tokens(config.available_balance, task.total_deposit)
          /\ ~delivered
          /\ last' = [Outcome("remove_task", "reverted", "refund not delivered",
                              sender, <<>>, task_hash)
                         EXCEPT !.messages = << submsgs >>]
          /\ UNCHANGED << store, num_agents, env >>
       \/ /\ task_raw # None
          /\ can_minus_tokens(config.available_balance, task.total_deposit)
          /\ delivered
          /\ tasks' = Del(tasks, task_hash)
          /\ time_slots' = scrub_slots(time_slots, task_hash)
          /\ block_slots' = scrub_slots(block_slots, task_hash)
          /\ config' = [config EXCEPT !.available_balance =
                            minus_tokens(@, task.total_deposit)]
          /\ last' = [Outcome("remove_task", "ok", "", sender, <<>>, task_hash)
                         EXCEPT !.messages = << submsgs >>]
          /\ UNCHANGED << task_total, num_agents, env >>

\* refill_task letting any sender refill a stored task
refill_task_any_sender(sender, funds, task_hash) ==
    LET task_raw == may_load(tasks, task_hash)
        task == task_raw[1]
        balance == add_tokens(config.available_balance, funds)
        total_balance == refill_total_balance(task.total_deposit, funds)
    IN \/ /\ task_raw = None
          /\ last' = Outcome("refill_task", "err", "Task doesnt exist",
                              "", <<>>, task_hash)
          /\ UNCHANGED << store, num_agents, env >>
       \/ /\ task_raw # None
          /\ InBounds(balance)
          /\ config' = [config EXCEPT !.available_balance = balance]
          /\ tasks' = refill_tasks(tasks, task_hash, total_balance)
          /\ last' = [Outcome("refill_task", "ok", "", sender, funds, task_hash)
                         EXCEPT !.total_deposit = coins_total(total_balance)]
          /\ UNCHANGED << task_total, block_slots, time_slots, num_agents, env >>

\* refill_task refusing every call while the paused flag is set
refill_task_unless_paused(sender, funds, task_hash) ==
    LET task_raw == may_load(tasks, task_hash)
        task == task_raw[1]
        balance == add_tokens(config.available_balance, funds)
        total_balance == refill_total_balance(task.total_deposit, funds)
    IN \/ /\ task_raw = None
          /\ last' = Outcome("refill_task", "err", "Task doesnt exist",
                              "", <<>>, task_hash)
          /\ UNCHANGED << store, num_agents, env >>
       \/ /\ task_raw # None
          /\ task.owner_id # sender
          /\ last' = Outcome("refill_task", "err",
                             "Only owner can refill their task",
                             sender, <<>>, task_hash)
          /\ UNCHANGED << store, num_agents, env >>
       \/ /\ task_raw # None
          /\ task.owner_id = sender
          /\ config.paused
          /\ last' = Outcome("refill_task", "err", "Refill task paused",
                             sender, <<>>, task_hash)
          /\ UNCHANGED << store, num_agents, env >>
       \/ /\ task_raw # None
          /\ task.owner_id = sender
          /\ ~config.paused
          /\ InBounds(balance)
          /\ config' = [config EXCEPT !.available_balance = balance]
          /\ tasks' = refill_tasks(tasks, task_hash, total_balance)
          /\ last' = [Outcome("refill_task", "ok", "", sender, funds, task_hash)
                         EXCEPT !.total_deposit = coins_total(total_balance)]
          /\ UNCHANGED << task_total, block_slots, time_slots, num_agents, env >>

\* pub fn refill_task
refill_task(sender, funds, task_hash) ==
    LET task_raw == may_load(tasks, task_hash)
        task == task_raw[1]
        balance == add_tokens(config.available_balance, funds)
        total_balance == refill_total_balance(task.total_deposit, funds)
    IN \/ /\ task_raw = None
          /\ last' = Outcome("refill_task", "err", "Task doesnt exist",
                              "", <<>>, task_hash)
          /\ UNCHANGED << store, num_agents, env >>
       \/ /\ task_raw # None
          /\ task.owner_id # sender
          /\ last' = Outcome("refill_task", "err",
                             "Only owner can refill their task",
                             sender, <<>>, task_hash)
          /\ UNCHANGED << store, num_agents, env >>
       \/ /\ task_raw # None
          /\ task.owner_id = sender
          /\ InBounds(balance)
          /\ config' = [config EXCEPT !.available_balance = balance]
          /\ tasks' = refill_tasks(tasks, task_hash, total_balance)
          /\ last' = [Outcome("refill_task", "ok", "", sender, funds, task_hash)
                         EXCEPT !.total_deposit = coins_total(total_balance)]
          /\ UNCHANGED << task_total, block_slots, time_slots, num_agents, env >>

\* ExecuteMsg::UpdateSettings {paused}, sent by the admin
update_settings(paused) ==
    /\ config' = [config EXCEPT !.paused = paused]
    /\ last' = Outcome("update_settings", "ok", "", ContractAddr, <<>>, 0)
    /\ UNCHANGED << tasks, task_total, block_slots, time_slots, num_agents, env >>

\* the chain produces the next block
NextBlock ==
    /\ env.height < MaxHeight
    /\ env' = [height |-> env.height + 1, time |-> env.time + 1]
    /\ last' = Outcome("next_block", "ok", "", "", <<>>, 0)
    /\ UNCHANGED << store, num_agents >>

CreateTask ==
    \E in \in CreateInputs, funds \in FundsSet :
        create_task(in[1], funds, in[2])

RemoveTask ==
    \E sender \in Owners, task_hash \in HashInputs, delivered \in BOOLEAN :
        remove_task(sender, task_hash, delivered)

RefillTask ==
    \E sender \in Owners, funds \in FundsSet, task_hash \in HashInputs :
        refill_task(sender, funds, task_hash)

UpdateSettings ==
    \E paused \in BOOLEAN : update_settings(paused)

Next ==
    \/ CreateTask
    \/ RemoveTask
    \/ RefillTask
    \/ UpdateSettings
    \/ NextBlock

Spec == Init /\ [][Next]_vars

(***************************************************************************)
(* The listings, asked of catalogs of many sizes: the catalog that n       *)
(* create_task calls of block 1 leave, the k-th for a task that runs every *)
(* k blocks, sent by the two owners in turn with 1 atom each.              *)
(***************************************************************************)
BulkTask(k) ==
    NewTask(OwnerSeq[1 + (k % 2)], << Coin(1, "atom") >>,
            Request([kind |-> "Block", n |-> k], BoundarySeq[1], ActionsSeq[1]))

\* the catalog after the tasks lo..hi are stored
RECURSIVE BulkCatalog(_, _)
BulkCatalog(lo, hi) ==
    IF lo > hi THEN EmptyMap
    ELSE IF lo = hi THEN to_hash(BulkTask(lo)) :> BulkTask(lo)
    ELSE LET mid == (lo + hi) \div 2
         IN BulkCatalog(lo, mid) @@ BulkCatalog(mid + 1, hi)

\* the block slots after the tasks 1..n are stored at height 1
BulkBlockSlots(n) ==
    [id \in 2..(n + 1) |-> << to_hash(BulkTask(id - 1)) >>]

\* the sizes of the catalogs: the small ones, and those at and past the
\* listing ceiling
CatalogSizes == (0..MaxCatalog) \cup {size_ceiling, size_ceiling + 1}

\* the limit arguments callers pass
LimitInputs ==
    {None} \cup {Some(l) : l \in 0..(MaxCatalog + 1)}
           \cup {Some(size_ceiling), Some(size_ceiling + 1)}

\* the from_index arguments callers pass: small ones, those at the listing
\* ceiling, and 2^32 and 2^32 + 1
IndexInputs ==
    {None} \cup {Some(U64(0, i)) : i \in 0..(MaxCatalog + 1)}
           \cup {Some(U64(0, size_ceiling)), Some(U64(0, size_ceiling + 1))}
           \cup {Some(U64(1, 0)), Some(U64(1, 1))}

\* removed is the number of tasks that were created and removed again
QInit ==
    \E n \in CatalogSizes, removed \in 0..1 :
        /\ tasks = BulkCatalog(1, n)
        /\ task_total = n + removed
        /\ block_slots = BulkBlockSlots(n)
        /\ time_slots = EmptyMap
        /\ config = [paused |-> FALSE,
                     available_balance |-> [d \in Denoms |->
                                              IF d = "atom" THEN n ELSE 0],
                     min_tasks_per_agent |-> 1,
                     agent_nomination_begin_time |->
                        IF n + removed >= 2 THEN Some(1) ELSE None]
        /\ num_agents = 1
        /\ env = [height |-> 1, time |-> 1]
        /\ last = Outcome("instantiate", "ok", "", "", <<>>, 0)

\* QueryMsg::GetTasks {from_index, limit}; a query writes nothing, so one
\* query is followed for each catalog
QueryGetTasks ==
    \E from_index \in IndexInputs, limit \in LimitInputs,
       usize_bits \in UsizeBits :
        /\ last.op = "instantiate"
        /\ last' = [op |-> "query_get_tasks",
                    from_index |-> from_index,
                    limit |-> limit,
                    usize_bits |-> usize_bits,
                    items |-> query_get_tasks(tasks, task_total, from_index,
                                              limit, usize_bits)]
        /\ UNCHANGED << store, num_agents, env >>

\* QueryMsg::GetTasksByOwner {owner_id}
QueryGetTasksByOwner ==
    \E owner_id \in Owners \cup {ContractAddr} :
        /\ last.op = "instantiate"
        /\ last' = [op |-> "query_get_tasks_by_owner",
                    owner_id |-> owner_id,
                    items |-> query_get_tasks_by_owner(tasks, owner_id)]
        /\ UNCHANGED << store, num_agents, env >>

QNext ==
    \/ QueryGetTasks
    \/ QueryGetTasksByOwner

QuerySpec == QInit /\ [][QNext]_vars

(***************************************************************************)
(* The calls that decide what create_task answers: creations, removals,    *)
(* the pause switch and the passing of blocks.                             *)
(***************************************************************************)
CreateNext ==
    \/ CreateTask
    \/ RemoveTask
    \/ UpdateSettings
    \/ NextBlock

CreateSpec == Init /\ [][CreateNext]_vars

(***************************************************************************)
(* Removals from a slot that holds several tasks: the state three          *)
(* create_task calls of block 1 leave, in each order they can come in.     *)
(***************************************************************************)
\* three tasks that resolve to block slot 2 at height 1
SlotTaskSeq ==
    << NewTask("alice", << Coin(1, "atom") >>, ReqImmediate),
       NewTask("bob", << Coin(1, "atom") >>, ReqImmediate),
       NewTask("alice", << Coin(1, "atom") >>, ReqBlockEnd) >>

\* the orders the three tasks are created in
CreationOrders ==
    {o \in [1..Len(SlotTaskSeq) -> 1..Len(SlotTaskSeq)] :
        \A i, j \in 1..Len(SlotTaskSeq) : o[i] = o[j] => i = j}

\* the block slots after the tasks are created in the order o: each
\* create_task pushes its hash into the slot the resolver names
RECURSIVE SlotsAfter(_, _)
SlotsAfter(o, n) ==
    IF n = 0 THEN EmptyMap
    ELSE LET item == SlotTaskSeq[o[n]]
             nx == next(item.interval, [height |-> 1, time |-> 1],
                        item.boundary)
         IN create_block_slots(SlotsAfter(o, n - 1), nx[2], nx[1],
                               to_hash(item))

SlotInit ==
    \E o \in CreationOrders :
        /\ tasks = [h \in {to_hash(SlotTaskSeq[i]) : i \in 1..Len(SlotTaskSeq)}
                       |-> SlotTaskSeq[CHOOSE i \in 1..Len(SlotTaskSeq) :
                                          to_hash(SlotTaskSeq[i]) = h]]
        /\ task_total = Len(SlotTaskSeq)
        /\ block_slots = SlotsAfter(o, Len(SlotTaskSeq))
        /\ time_slots = EmptyMap
        /\ config = [paused |-> FALSE,
                     available_balance |-> [d \in Denoms |->
                         IF d = "atom" THEN Len(SlotTaskSeq) ELSE 0],
                     min_tasks_per_agent |-> 1,
                     agent_nomination_begin_time |-> Some(1)]
        /\ num_agents = 1
        /\ env = [height |-> 1, time |-> 1]
        /\ last = Outcome("instantiate", "ok", "", "", <<>>, 0)

SlotNext ==
    \/ RemoveTask
    \/ NextBlock

SlotSpec == SlotInit /\ [][SlotNext]_vars

(***************************************************************************)
(* Notions the properties are stated with.                                 *)
(***************************************************************************)
Ledger == config.available_balance

\* the amount of denomination d over the deposits of the tasks hs
RECURSIVE DepositSum(_, _, _)
DepositSum(catalog, hs, d) ==
    IF hs = {} THEN 0
    ELSE LET h == CHOOSE x \in hs : TRUE
         IN AmountOf(catalog[h].total_deposit, d)
            + DepositSum(catalog, hs \ {h}, d)

\* how often hash h stands in a slot list
Count(hashes, h) == Len(SelectSeq(hashes, LAMBDA x : x = h))

\* how often hash h stands in the slots ids of an index
RECURSIVE CountIn(_, _, _)
CountIn(slots, ids, h) ==
    IF ids = {} THEN 0
    ELSE LET id == CHOOSE x \in ids : TRUE
         IN Count(slots[id], h) + CountIn(slots, ids \ {id}, h)

\* how often hash h stands in the two slot indices together
Occurrences(blocks, times, h) ==
    CountIn(blocks, DOMAIN blocks, h) + CountIn(times, DOMAIN times, h)

\* every hash a slot list holds
SlottedHashes(blocks, times) ==
    UNION {Range(blocks[id]) : id \in DOMAIN blocks}
        \cup UNION {Range(times[id]) : id \in DOMAIN times}

\* the step is a call of op that ended with result
Called(op, result) == last'.op = op /\ last'.result = result

\* the deposit grown by one coin: added to the entry of its denomination,
\* appended when there is none
MergeCoin(deposit, f) ==
    IF \E i \in 1..Len(deposit) : deposit[i].denom = f.denom
    THEN LET i == CHOOSE j \in 1..Len(deposit) : deposit[j].denom = f.denom
         IN [deposit EXCEPT ![i].amount = @ + f.amount]
    ELSE Append(deposit, f)

\* the deposit grown by a list of coins
RECURSIVE MergeFunds(_, _)
MergeFunds(deposit, funds) ==
    IF funds = <<>> THEN deposit
    ELSE MergeFunds(MergeCoin(deposit, Head(funds)), Tail(funds))

\* the checks of create_task that come before the look-up of the hash
PassesChecks(funds, c, item, e) ==
    /\ funds # <<>>
    /\ ~c.paused
    /\ is_valid_msg(item, ContractAddr)
    /\ is_valid(item.interval)
    /\ next(item.interval, e, item.boundary)[1] # 0

\* every request the fields of TaskRequest can be combined into
AllRequests ==
    {Request(i, b, a) : i \in Range(IntervalSeq), b \in Range(BoundarySeq),
                        a \in Range(ActionsSeq)}

\* the checks a request goes through, in their order: << fails, message >>;
\* only an interval that is valid has a next slot to resolve
CheckList(funds, item, c, e, catalog) ==
    << << funds = <<>>, "Must attach funds" >>,
       << c.paused, "Create task paused" >>,
       << ~is_valid_msg(item, ContractAddr), "Actions Message Unsupported" >>,
       << ~is_valid(item.interval), "Interval invalid" >>,
       << is_valid(item.interval)
             /\ next(item.interval, e, item.boundary)[1] = 0, "Task ended" >>,
       << to_hash(item) \in DOMAIN catalog, "Task already exists" >> >>

\* the message of the first check of the list that fails, "" when none does
FirstFailing(funds, item, c, e, catalog) ==
    LET ch == CheckList(funds, item, c, e, catalog)
        failing == {i \in 1..Len(ch) : ch[i][1]}
    IN IF failing = {} THEN ""
       ELSE ch[CHOOSE i \in failing : \A j \in failing : i <= j][2]

(***************************************************************************)
(* C1: after any sequence of create_task, remove_task and refill_task the  *)
(* ledger equals, per denomination, the sum of total_deposit over the      *)
(* stored tasks.  refill_task breaks it: see C6.                           *)
(***************************************************************************)
C1_LedgerIsSumOfDeposits ==
    \A d \in Denoms : Ledger[d] = DepositSum(tasks, DOMAIN tasks, d)

(***************************************************************************)
(* C2: a hash is a key of the catalog iff it stands in the slot indices,   *)
(* and then once: in one list of one kind.                                 *)
(***************************************************************************)
C2_StoredIffSlottedOnce ==
    /\ SlottedHashes(block_slots, time_slots) = DOMAIN tasks
    /\ \A h \in DOMAIN tasks : Occurrences(block_slots, time_slots, h) = 1

\* a removal has left one of two tasks stored and slotted
C2_Witness ==
    /\ last.op = "remove_task" /\ last.result = "ok"
    /\ task_total = 2
    /\ Cardinality(DOMAIN tasks) = 1
    /\ DOMAIN time_slots # {}

(***************************************************************************)
(* C3: a create_task for a task that is stored never succeeds, and when    *)
(* the earlier checks pass it is refused with "Task already exists"; a     *)
(* create_task that succeeds adds a hash the catalog did not hold.         *)
(***************************************************************************)
C3_SecondCreateRefused ==
    [][ last'.op = "create_task" =>
        /\ \A h \in DOMAIN tasks, funds \in FundsSet :
              LET item == NewTask(tasks[h].owner_id, funds, tasks[h])
                  err == create_task_error(funds, config, item, env, tasks)
              IN /\ err # ""
                 /\ PassesChecks(funds, config, item, env) =>
                       err = "Task already exists"
        /\ last'.result = "ok" =>
              /\ last'.task_hash \notin DOMAIN tasks
              /\ DOMAIN tasks' = DOMAIN tasks \cup {last'.task_hash}
        /\ last'.err = "Task already exists" =>
              /\ tasks # EmptyMap
              /\ tasks' = tasks ]_vars

\* the second of two equal requests has been refused
C3_Witness ==
    /\ last.op = "create_task"
    /\ last.err = "Task already exists"
    /\ task_total = 1

(***************************************************************************)
(* C4: a refill_task that succeeds changes the deposit of its task and the *)
(* ledger, nothing else: the key, the hash get_task reports, the other     *)
(* fields, the other tasks, both slot indices and the counter stay.        *)
(***************************************************************************)
C4_RefillFrame ==
    [][ Called("refill_task", "ok") =>
          LET h == last'.task_hash IN
          /\ h \in DOMAIN tasks
          /\ DOMAIN tasks' = DOMAIN tasks
          /\ query_get_task(tasks', h)[1].task_hash = h
          /\ query_get_task(tasks', h)[1].task_hash
                = query_get_task(tasks, h)[1].task_hash
          /\ [tasks'[h] EXCEPT !.total_deposit = tasks[h].total_deposit]
                = tasks[h]
          /\ \A g \in DOMAIN tasks \ {h} : tasks'[g] = tasks[g]
          /\ block_slots' = block_slots
          /\ time_slots' = time_slots
          /\ task_total' = task_total
          /\ [config' EXCEPT !.available_balance = Ledger] = config ]_vars

\* a task has been refilled while another task is stored, one of them in
\* a block slot and the other in a time slot
C4_Witness ==
    /\ last.op = "refill_task" /\ last.result = "ok"
    /\ Cardinality(DOMAIN tasks) = 2
    /\ DOMAIN block_slots # {}
    /\ DOMAIN time_slots # {}

(***************************************************************************)
(* C5: a deposit of the single coin (a, d) refilled with the single coin   *)
(* (b, d) becomes the single coin (a + b, d), the response reports it and  *)
(* the ledger of d grows by b.                                             *)
(***************************************************************************)
C5_RefillSameDenom ==
    [][ Called("refill_task", "ok") =>
          LET h == last'.task_hash
              dep == tasks[h].total_deposit
              funds == last'.funds
          IN (Len(dep) = 1 /\ Len(funds) = 1 /\ dep[1].denom = funds[1].denom)
             => /\ tasks'[h].total_deposit
                     = << Coin(dep[1].amount + funds[1].amount, dep[1].denom) >>
                /\ last'.total_deposit
                     = << dep[1].amount + funds[1].amount, dep[1].denom >>
                /\ Ledger'[dep[1].denom]
                     = Ledger[dep[1].denom] + funds[1].amount ]_vars

\* a deposit of 1 atom has been refilled with 1 atom
C5_Witness ==
    /\ last.op = "refill_task" /\ last.result = "ok"
    /\ last.funds = << Coin(1, "atom") >>
    /\ tasks[last.task_hash].total_deposit = << Coin(2, "atom") >>

(***************************************************************************)
(* C6: refill_task merges the attached funds into the deposit: a coin is   *)
(* added to the entry of its denomination, appended when there is none,    *)
(* the other entries stay; the ledger grows by the funds.                  *)
(***************************************************************************)
C6_RefillMergesFunds ==
    [][ Called("refill_task", "ok") =>
          LET h == last'.task_hash IN
          /\ tasks'[h].total_deposit
                = MergeFunds(tasks[h].total_deposit, last'.funds)
          /\ Ledger' = add_tokens(Ledger, last'.funds) ]_vars

(***************************************************************************)
(* C7: after a remove_task that succeeds get_task finds nothing under the  *)
(* hash, no slot list of either kind holds it, and the ledger is lower by  *)
(* the deposit the task held.                                              *)
(***************************************************************************)
C7_RemoveRemovesAll ==
    [][ Called("remove_task", "ok") =>
          LET h == last'.task_hash IN
          /\ h \in DOMAIN tasks
          /\ query_get_task(tasks', h) = None
          /\ h \notin SlottedHashes(block_slots', time_slots')
          /\ \A d \in Denoms :
                Ledger'[d] = Ledger[d] - AmountOf(tasks[h].total_deposit, d) ]_vars

\* a task with a deposit has been removed while another stays slotted
C7_Witness ==
    /\ last.op = "remove_task" /\ last.result = "ok"
    /\ last.messages[1].amount # <<>>
    /\ tasks # EmptyMap

(***************************************************************************)
(* C8: when the refund remove_task queues is not delivered, the removal    *)
(* stands: the task is gone from the catalog and from the slot indices.    *)
(***************************************************************************)
C8_RemovalSurvivesRefundFailure ==
    (last.op = "remove_task" /\ last.err = "refund not delivered") =>
        /\ last.task_hash \notin DOMAIN tasks
        /\ last.task_hash \notin SlottedHashes(block_slots, time_slots)

(***************************************************************************)
(* C9: no slot of either index is stored with an empty list.               *)
(***************************************************************************)
C9_NoEmptySlot ==
    /\ \A id \in DOMAIN block_slots : block_slots[id] # <<>>
    /\ \A id \in DOMAIN time_slots : time_slots[id] # <<>>

\* a removal has emptied the only block slot while a time slot stays
C9_Witness ==
    /\ last.op = "remove_task" /\ last.result = "ok"
    /\ task_total = 2
    /\ DOMAIN block_slots = {}
    /\ DOMAIN time_slots # {}

(***************************************************************************)
(* C10: a create_task that is refused leaves the catalog, both slot        *)
(* indices, the ledger, the counter and the nomination time as they were.  *)
(***************************************************************************)
C10_RefusedCreateChangesNothing ==
    [][ Called("create_task", "err") =>
          /\ tasks' = tasks
          /\ block_slots' = block_slots
          /\ time_slots' = time_slots
          /\ config' = config
          /\ task_total' = task_total ]_vars

\* a request has been refused as a duplicate of a stored task
C10_Witness ==
    /\ last.op = "create_task"
    /\ last.err = "Task already exists"
    /\ tasks # EmptyMap
    /\ Ledger["atom"] > 0

(***************************************************************************)
(* C11: create_task is refused with "Must attach funds" when no funds are  *)
(* attached and, funds attached, with "Create task paused" when the paused *)
(* flag is set; no create_task adds a task while the flag is set, and with *)
(* the flag cleared a request that passes the other checks is accepted.    *)
(***************************************************************************)
C11_PausedOrUnfundedRefused ==
    /\ [](\A in \in CreateInputs, funds \in FundsSet :
            LET item == NewTask(in[1], funds, in[2])
                err == create_task_error(funds, config, item, env, tasks)
            IN /\ funds = <<>> => err = "Must attach funds"
               /\ (funds # <<>> /\ config.paused) => err = "Create task paused"
               /\ (~config.paused /\ PassesChecks(funds, config, item, env)
                      /\ to_hash(item) \notin DOMAIN tasks) => err = "")
    /\ [][ last'.op = "create_task" =>
            /\ config.paused =>
                  /\ last'.err \in {"Must attach funds", "Create task paused"}
                  /\ tasks' = tasks
            /\ last'.err = "Create task paused" => config.paused
            /\ last'.result = "ok" =>
                  /\ ~config.paused
                  /\ last'.funds # <<>> ]_vars

\* a request has been refused while paused, after one was accepted
C11_Witness ==
    /\ last.op = "create_task"
    /\ last.err = "Create task paused"
    /\ config.paused
    /\ tasks # EmptyMap

(***************************************************************************)
(* C12: when the first resolution of the next slot gives the id 0, a       *)
(* request that passed the checks before it is refused with "Task ended";  *)
(* the refused call stores nothing, slots nothing and adds nothing to the  *)
(* ledger, and no accepted task is ever put into a slot 0.                 *)
(***************************************************************************)
C12_EndedScheduleRefused ==
    /\ [](/\ \A in \in CreateInputs, funds \in FundsSet :
               LET item == NewTask(in[1], funds, in[2])
                   err == create_task_error(funds, config, item, env, tasks)
               IN (/\ funds # <<>>
                   /\ ~config.paused
                   /\ is_valid_msg(item, ContractAddr)
                   /\ is_valid(item.interval)
                   /\ next(item.interval, env, item.boundary)[1] = 0)
                  => err = "Task ended"
           /\ 0 \notin (DOMAIN block_slots) \cup (DOMAIN time_slots))
    /\ [][ last'.op = "create_task" =>
            /\ last'.err = "Task ended" =>
                  /\ tasks' = tasks
                  /\ block_slots' = block_slots
                  /\ time_slots' = time_slots
                  /\ Ledger' = Ledger
                  /\ task_total' = task_total
            /\ last'.result = "ok" => last'.slot_id # 0 ]_vars

\* a schedule that ends at height 2 has been refused at height 2
C12_Witness ==
    /\ last.op = "create_task"
    /\ last.err = "Task ended"
    /\ env.height = 2
    /\ next(ReqBlockEnd.interval, env, ReqBlockEnd.boundary)[1] = 0

(***************************************************************************)
(* C13: remove_task ends in "No task found by hash" exactly when the hash  *)
(* is not a key of the catalog; the call then queues no refund and leaves  *)
(* the catalog, both slot indices, the ledger and the counter as they were.*)
(***************************************************************************)
C13_RemoveAbsentRefused ==
    [][ last'.op = "remove_task" =>
          /\ (last'.task_hash \notin DOMAIN tasks)
                <=> (last'.err = "No task found by hash")
          /\ last'.err = "No task found by hash" =>
                /\ last'.result = "err"
                /\ last'.messages = <<>>
                /\ tasks' = tasks
                /\ block_slots' = block_slots
                /\ time_slots' = time_slots
                /\ config' = config
                /\ task_total' = task_total ]_vars

\* an absent hash has been refused while a task with a deposit is stored
C13_Witness ==
    /\ last.op = "remove_task"
    /\ last.err = "No task found by hash"
    /\ last.task_hash \notin DOMAIN tasks
    /\ tasks # EmptyMap
    /\ Ledger["atom"] > 0

(***************************************************************************)
(* C14: refill_task ends in "Task doesnt exist" exactly when the hash is   *)
(* not a key of the catalog, whoever calls, and for a stored task in "Only *)
(* owner can refill their task" exactly when the caller is not its owner;  *)
(* a refused refill leaves every deposit and the ledger as they were.      *)
(***************************************************************************)
C14_RefillRefusals ==
    [][ last'.op = "refill_task" =>
          LET h == last'.task_hash IN
          /\ (h \notin DOMAIN tasks) <=> (last'.err = "Task doesnt exist")
          /\ h \in DOMAIN tasks =>
                ((last'.caller # tasks[h].owner_id)
                    <=> (last'.err = "Only owner can refill their task"))
          /\ last'.result = "err" =>
                /\ tasks' = tasks
                /\ config' = config
          /\ last'.result = "ok" => last'.caller = tasks[h].owner_id ]_vars

\* a refill by another account than the owner has been refused
C14_Witness ==
    /\ last.op = "refill_task"
    /\ last.err = "Only owner can refill their task"
    /\ last.task_hash \in DOMAIN tasks
    /\ last.caller # tasks[last.task_hash].owner_id
    /\ tasks[last.task_hash].total_deposit # <<>>

(***************************************************************************)
(* C15: the task total counter grows by one in a create_task that succeeds *)
(* and stays in every other step, a removal, a refill and a refused call   *)
(* included; it never decreases and is never below the number of stored    *)
(* tasks.                                                                  *)
(***************************************************************************)
C15_CounterCountsCreations ==
    /\ [](task_total >= Cardinality(DOMAIN tasks))
    /\ [][ /\ Called("create_task", "ok") => task_total' = task_total + 1
           /\ ~Called("create_task", "ok") => task_total' = task_total
           /\ task_total' >= task_total ]_vars

\* two tasks were created and both removed: the counter still says 2
C15_Witness ==
    /\ last.op = "remove_task" /\ last.result = "ok"
    /\ task_total = 2
    /\ tasks = EmptyMap

Live == Cardinality(DOMAIN tasks)

\* whether the index v is n or more
AtOrBeyond(v, n) == v.hi # 0 \/ v.lo >= n

\* max(0, n - v)
Remaining(v, n) == IF AtOrBeyond(v, n) THEN 0 ELSE n - v.lo

\* items are responses for stored tasks, in strictly ascending order of
\* the key
AscendingResponses(items) ==
    /\ \A j \in 1..Len(items) :
          /\ items[j].task_hash \in DOMAIN tasks
          /\ items[j] = TaskResponse(tasks[items[j].task_hash])
    /\ \A j \in 1..(Len(items) - 1) :
          items[j].task_hash < items[j + 1].task_hash

\* items are the tasks at the positions n + 1, n + 2, ... of the catalog
\* in ascending order of the key, with none left out between them
IsPage(items, n) ==
    /\ AscendingResponses(items)
    /\ items # <<>> =>
          LET first == items[1].task_hash
              final == items[Len(items)].task_hash
          IN /\ Cardinality({h \in DOMAIN tasks : h < first}) = n
             /\ Cardinality({h \in DOMAIN tasks : first <= h /\ h <= final})
                   = Len(items)

(***************************************************************************)
(* C17: for a from_index i and a limit l the listing has                   *)
(* min(l, max(0, total - i)) items, total the number of stored tasks, and  *)
(* they are the tasks at the positions i, i + 1, ... of the catalog in     *)
(* the order of the key; none when i is total or more.  The code departs   *)
(* from it for an i of 2^32 or more (see C18) and for an l above 1000.     *)
(***************************************************************************)
C17_PageOfFullListing ==
    (last.op = "query_get_tasks" /\ last.from_index # None
        /\ last.limit # None) =>
       LET i == last.from_index[1]
           l == last.limit[1]
       IN /\ Len(last.items) = Min(l, Remaining(i, Live))
          /\ AtOrBeyond(i, Live) => last.items = <<>>
          /\ last.items # <<>> => IsPage(last.items, i.lo)

(***************************************************************************)
(* C18: a listing never has more than 1000 items, nor more than 100 when   *)
(* no limit is given, and it is empty when from_index is the number of     *)
(* stored tasks or more.  The cast of from_index to a 32 bit usize breaks  *)
(* the last part.                                                          *)
(***************************************************************************)
C18_CeilingAndEmptyPastEnd ==
    last.op = "query_get_tasks" =>
       /\ Len(last.items) <= size_ceiling
       /\ last.limit = None => Len(last.items) <= default_limit
       /\ AtOrBeyond(unwrap_or(last.from_index, U64(0, 0)), Live)
             => last.items = <<>>

C20_OwnerListing ==
    last.op = "query_get_tasks_by_owner" =>
       /\ AscendingResponses(last.items)
       /\ {last.items[j].task_hash : j \in 1..Len(last.items)}
             = {h \in DOMAIN tasks : tasks[h].owner_id = last.owner_id}
       /\ \A j \in 1..Len(last.items) :
             last.items[j].owner_id = last.owner_id

\* one of two stored tasks has been listed for its owner
C20_Witness ==
    /\ last.op = "query_get_tasks_by_owner"
    /\ last.owner_id = "alice"
    /\ Len(last.items) = 1
    /\ Cardinality(DOMAIN tasks) = 2

(***************************************************************************)
(* Notions the properties of the slot queries are stated with.             *)
(***************************************************************************)
\* the slot ids callers ask for
SlotIds == 0..(MaxHeight + 2)

\* id and hashes are what a query with no slot given reports for an index:
\* its smallest id and the list stored there, 0 and no hash when it is empty
IsFirstSlot(slots, id, hashes) ==
    IF DOMAIN slots = {}
    THEN id = 0 /\ hashes = <<>>
    ELSE /\ id \in DOMAIN slots
         /\ \A other \in DOMAIN slots : id <= other
         /\ hashes = slots[id]

\* id and hashes are what a query for slot s reports for an index: s and
\* the list stored there, 0 and no hash when the index has no slot s
IsSlot(slots, s, id, hashes) ==
    IF s \in DOMAIN slots /\ slots[s] # <<>>
    THEN id = s /\ hashes = slots[s]
    ELSE id = 0 /\ hashes = <<>>

(***************************************************************************)
(* C21: with no slot given query_slot_tasks reports, for each index by     *)
(* itself, the smallest slot id stored and the whole list of that slot,    *)
(* and id 0 with no hash for an index that stores no slot.                 *)
(***************************************************************************)
C21_NextDueIsFirstSlot ==
    LET r == query_slot_tasks(block_slots, time_slots, None)
    IN /\ IsFirstSlot(block_slots, r[1], r[2])
       /\ IsFirstSlot(time_slots, r[3], r[4])

\* two block slots are stored and no time slot: the smaller id is reported
C21_Witness ==
    /\ Cardinality(DOMAIN block_slots) = 2
    /\ DOMAIN time_slots = {}
    /\ query_slot_tasks(block_slots, time_slots, None)[1] = 2
    /\ query_slot_tasks(block_slots, time_slots, None)[3] = 0

(***************************************************************************)
(* C22: with slot s given query_slot_tasks reports in the block part the   *)
(* list of block slot s and in the time part the list of time slot s, each *)
(* with id s, or id 0 and no hash where that index has no slot s.  The     *)
(* code loads the time part from the block index.                          *)
(***************************************************************************)
C22_SlotOfEachKind ==
    \A s \in SlotIds :
        LET r == query_slot_tasks(block_slots, time_slots, Some(s))
        IN /\ IsSlot(block_slots, s, r[1], r[2])
           /\ IsSlot(time_slots, s, r[3], r[4])

(***************************************************************************)
(* C23: query_slot_ids reports for each index the ids of its slots in      *)
(* strictly ascending order, and an id is reported for an index iff a      *)
(* stored task has its hash in that slot of that index.                    *)
(***************************************************************************)
C23_OccupiedSlotIds ==
    LET r == query_slot_ids(time_slots, block_slots)
        Strict(ids) == \A j \in 1..(Len(ids) - 1) : ids[j] < ids[j + 1]
        Occupied(slots) ==
            {id \in SlotIds \cup DOMAIN slots :
                /\ id \in DOMAIN slots
                /\ \E h \in DOMAIN tasks : h \in Range(slots[id])}
    IN /\ Strict(r[1])
       /\ Strict(r[2])
       /\ Range(r[1]) = Occupied(time_slots)
       /\ Range(r[2]) = Occupied(block_slots)

\* a time slot and a block slot of different ids are occupied
C23_Witness ==
    /\ last.op = "create_task" /\ last.result = "ok"
    /\ Len(query_slot_ids(time_slots, block_slots)[1]) = 1
    /\ Len(query_slot_ids(time_slots, block_slots)[2]) = 1
    /\ query_slot_ids(time_slots, block_slots)[1]
          # query_slot_ids(time_slots, block_slots)[2]

(***************************************************************************)
(* C24: a create_task with an Immediate interval that succeeds at height H *)
(* on an empty scheduler leaves query_slot_ids with no time id and the     *)
(* block ids [H + 1], query_slot_tasks with no slot given with the hash of *)
(* the task in the block part and id 0 and no hash in the time part, and   *)
(* query_get_task with the task, its deposit the attached funds.           *)
(***************************************************************************)
C24_ImmediateOnEmptyScheduler ==
    [][ (/\ Called("create_task", "ok")
         /\ tasks = EmptyMap
         /\ block_slots = EmptyMap
         /\ time_slots = EmptyMap
         /\ tasks'[last'.task_hash].interval.kind = "Immediate") =>
          LET h == last'.task_hash
              view == query_get_task(tasks', h)
          IN /\ query_slot_ids(time_slots', block_slots')
                   = << <<>>, << env.height + 1 >> >>
             /\ query_slot_tasks(block_slots', time_slots', None)
                   = << env.height + 1, << h >>, 0, <<>> >>
             /\ view # None
             /\ view[1].task_hash = h
             /\ view[1].owner_id = last'.caller
             /\ view[1].interval.kind = "Immediate"
             /\ view[1].total_deposit = last'.funds
             /\ last'.funds # <<>> ]_vars

\* the first task, of an Immediate interval, has been created at height 2
C24_Witness ==
    /\ last.op = "create_task" /\ last.result = "ok"
    /\ task_total = 1
    /\ env.height = 2
    /\ tasks[last.task_hash].interval.kind = "Immediate"
    /\ DOMAIN block_slots = {3}

(***************************************************************************)
(* C25, as claimed: a create_task with an Immediate interval at height H   *)
(* puts the hash into block slot H.                                        *)
(***************************************************************************)
C25_ImmediateAtCurrentHeight ==
    [][ (/\ Called("create_task", "ok")
         /\ tasks'[last'.task_hash].interval.kind = "Immediate") =>
          /\ last'.slot_kind = "Block"
          /\ last'.slot_id = env.height
          /\ env.height \in DOMAIN block_slots'
          /\ last'.task_hash \in Range(block_slots'[env.height]) ]_vars

(***************************************************************************)
(* C25, amended: a create_task with an Immediate interval at height H puts *)
(* the hash into block slot H + 1, the next height, and into no other slot *)
(* of either index.                                                        *)
(***************************************************************************)
C25_ImmediateAtNextHeight ==
    [][ (/\ Called("create_task", "ok")
         /\ tasks'[last'.task_hash].interval.kind = "Immediate") =>
          LET h == last'.task_hash IN
          /\ last'.slot_kind = "Block"
          /\ last'.slot_id = env.height + 1
          /\ env.height + 1 \in DOMAIN block_slots'
          /\ h \in Range(block_slots'[env.height + 1])
          /\ \A id \in DOMAIN block_slots' \ {env.height + 1} :
                h \notin Range(block_slots'[id])
          /\ \A id \in DOMAIN time_slots' :
                h \notin Range(time_slots'[id]) ]_vars

\* an Immediate task created at height 1 shares block slot 2 with another
C25_Witness ==
    /\ last.op = "create_task" /\ last.result = "ok"
    /\ tasks[last.task_hash].interval.kind = "Immediate"
    /\ env.height = 1
    /\ 2 \in DOMAIN block_slots
    /\ Len(block_slots[2]) = 2

(***************************************************************************)
(* C26: a create_task that succeeds appends the new hash to the list of    *)
(* one slot: the slot of the resolved id in the block index for the kind   *)
(* Block, in the time index for the kind Cron.  The other slots of that    *)
(* index and the other index stay, and slot_id and slot_kind of the        *)
(* response name the slot.                                                 *)
(***************************************************************************)
C26_CreateSlotsOnce ==
    [][ Called("create_task", "ok") =>
          LET h == last'.task_hash
              id == last'.slot_id
              resolved == next(tasks'[h].interval, env, tasks'[h].boundary)
              Appended(slots, slotsAfter) ==
                 /\ DOMAIN slotsAfter = DOMAIN slots \cup {id}
                 /\ slotsAfter[id]
                       = (IF id \in DOMAIN slots THEN slots[id] ELSE <<>>)
                            \o << h >>
                 /\ \A other \in DOMAIN slots \ {id} :
                       slotsAfter[other] = slots[other]
          IN /\ << id, last'.slot_kind >> = resolved
             /\ last'.slot_kind \in {"Block", "Cron"}
             /\ last'.slot_kind = "Block" =>
                   /\ Appended(block_slots, block_slots')
                   /\ time_slots' = time_slots
             /\ last'.slot_kind = "Cron" =>
                   /\ Appended(time_slots, time_slots')
                   /\ block_slots' = block_slots ]_vars

\* a task has been created into a time slot while a block slot holds two
C26_Witness ==
    /\ last.op = "create_task" /\ last.result = "ok"
    /\ last.slot_kind = "Cron"
    /\ last.slot_id \in DOMAIN time_slots
    /\ DOMAIN block_slots # {}

(***************************************************************************)
(* C27: a slot list holds its hashes in the order their tasks were         *)
(* created; a remove_task that succeeds takes the removed hash out of      *)
(* every slot list and leaves the hashes that remain, each once, in the    *)
(* order they were in.                                                     *)
(***************************************************************************)
C27_RemovalKeepsSlotOrder ==
    [][ Called("remove_task", "ok") =>
          LET h == last'.task_hash
              Pos(list, x) == CHOOSE i \in 1..Len(list) : list[i] = x
              Kept(slots, slotsAfter) ==
                 /\ DOMAIN slotsAfter \subseteq DOMAIN slots
                 /\ \A id \in DOMAIN slots :
                       LET rest == Range(slots[id]) \ {h}
                       IN IF rest = {}
                          THEN id \notin DOMAIN slotsAfter
                          ELSE /\ id \in DOMAIN slotsAfter
                               /\ Range(slotsAfter[id]) = rest
                               /\ Len(slotsAfter[id]) = Cardinality(rest)
                               /\ \A a, b \in rest :
                                     (Pos(slotsAfter[id], a)
                                         < Pos(slotsAfter[id], b))
                                     <=> (Pos(slots[id], a) < Pos(slots[id], b))
          IN /\ Kept(block_slots, block_slots')
             /\ Kept(time_slots, time_slots') ]_vars

\* the first of three hashes of a slot has been removed; the other two
\* stay in a list that does not follow the order of the keys
C27_Witness ==
    /\ last.op = "remove_task" /\ last.result = "ok"
    /\ 2 \in DOMAIN block_slots
    /\ Len(block_slots[2]) = 2
    /\ block_slots[2][1] > block_slots[2][2]

(***************************************************************************)
(* C28: create_task reports the first check that fails in the order funds  *)
(* attached, not paused, action targets permitted, interval valid,         *)
(* resolver not terminal, hash not stored.  A request that duplicates a    *)
(* stored task whose schedule has ended gets "Task ended"; a request with  *)
(* no funds on a paused system gets "Must attach funds".                   *)
(***************************************************************************)
C28_FirstFailingCheck ==
    /\ [](\A sender \in Owners, task \in AllRequests, funds \in FundsSet :
             LET item == NewTask(sender, funds, task)
             IN create_task_error(funds, config, item, env, tasks)
                   = FirstFailing(funds, item, config, env, tasks))
    /\ [][ last'.op = "create_task" =>
             /\ last'.result = "ok" <=> last'.err = ""
             /\ last'.err # "" => UNCHANGED store
             /\ \A in \in CreateInputs, funds \in FundsSet :
                   create_task(in[1], funds, in[2]) =>
                      last'.err = FirstFailing(funds,
                                     NewTask(in[1], funds, in[2]),
                                     config, env, tasks) ]_vars

\* a request that duplicates a stored task is refused at height 2, where its
\* schedule has ended, with "Task ended"
C28_Witness ==
    /\ last.op = "create_task"
    /\ last.err = "Task ended"
    /\ env.height = 2
    /\ to_hash(NewTask("alice", << Coin(1, "atom") >>, ReqBlockEnd))
          \in DOMAIN tasks

(***************************************************************************)
(* C29: the task_hash a successful create_task returns is the key of the   *)
(* stored task: get_task with it returns the task just created, with the   *)
(* caller as owner, the attached funds as deposit and the schedule,        *)
(* boundary, actions and rules of the request; and the task_hash of every  *)
(* view that get_task, list_tasks and list_tasks_by_owner return is the    *)
(* key the viewed task is stored under.                                    *)
(***************************************************************************)
C29_HashIsStorageKey ==
    /\ [](LET ViewOf(v) ==
                 /\ v.task_hash \in DOMAIN tasks
                 /\ [owner_id |-> v.owner_id, interval |-> v.interval,
                     boundary |-> v.boundary, stop_on_fail |-> v.stop_on_fail,
                     total_deposit |-> v.total_deposit, actions |-> v.actions,
                     rules |-> v.rules] = tasks[v.task_hash]
               listed == query_get_tasks(tasks, task_total, None, None, 32)
           IN /\ \A h \in DOMAIN tasks :
                    LET got == query_get_task(tasks, h)
                    IN got # None /\ got[1].task_hash = h /\ ViewOf(got[1])
              /\ \A i \in 1..Len(listed) : ViewOf(listed[i])
              /\ \A o \in Owners :
                    LET mine == query_get_tasks_by_owner(tasks, o)
                    IN \A i \in 1..Len(mine) : ViewOf(mine[i]))
    /\ [][ Called("create_task", "ok") =>
             LET got == query_get_task(tasks', last'.task_hash)
             IN /\ last'.task_hash \in DOMAIN tasks'
                /\ got # None
                /\ got[1].task_hash = last'.task_hash
                /\ got[1].owner_id = last'.caller
                /\ got[1].total_deposit = last'.funds
                /\ \E in \in CreateInputs :
                      /\ create_task(in[1], last'.funds, in[2])
                      /\ in[1] = last'.caller
                      /\ got[1].interval = in[2].interval
                      /\ got[1].boundary = in[2].boundary
                      /\ got[1].stop_on_fail = in[2].stop_on_fail
                      /\ got[1].actions = in[2].actions
                      /\ got[1].rules = in[2].rules ]_vars

\* a second task has been created; get_task shows the attached funds as
\* its deposit and the listing shows both tasks
C29_Witness ==
    /\ last.op = "create_task" /\ last.result = "ok"
    /\ Cardinality(DOMAIN tasks) = 2
    /\ query_get_task(tasks, last.task_hash)[1].total_deposit = last.funds
    /\ Len(query_get_tasks(tasks, task_total, None, None, 32)) = 2

(***************************************************************************)
(* C30: every stored task has a deposit that is not empty, whatever        *)
(* create_task, refill_task and remove_task calls came before: a           *)
(* refill_task that succeeds lowers the amount of no denomination of the   *)
(* deposit, also when no funds are attached.  The merge of refill_task     *)
(* (C6) breaks it: a refill with no funds leaves the deposit empty.        *)
(***************************************************************************)
C30_DepositNeverShrinks ==
    /\ [](\A h \in DOMAIN tasks : tasks[h].total_deposit # <<>>)
    /\ [][ Called("refill_task", "ok") =>
             LET h == last'.task_hash
             IN \A d \in Denoms :
                   AmountOf(tasks'[h].total_deposit, d)
                      >= AmountOf(tasks[h].total_deposit, d) ]_vars

(***************************************************************************)
(* C31: the refund remove_task names is, per denomination and with one     *)
(* entry per denomination, what was paid in for the task: the funds of its *)
(* creation and of every refill of it that succeeded.  While the counter   *)
(* says 1 a single task was ever created and none removed, so the ledger,  *)
(* which every creation and refill adds its funds to, holds what was paid  *)
(* in for the stored task.  The merge of refill_task (C6) breaks it.       *)
(***************************************************************************)
C31_RefundIsWhatWasPaidIn ==
    [][ (Called("remove_task", "ok") /\ task_total = 1) =>
          LET refund == last'.messages[1].amount
          IN /\ \A d \in Denoms : AmountOf(refund, d) = Ledger[d]
             /\ \A i, j \in 1..Len(refund) :
                   refund[i].denom = refund[j].denom => i = j ]_vars

(***************************************************************************)
(* C32: remove_task checks no caller.  Called with the hash of a stored    *)
(* task it is refused for no sender: it succeeds whenever the ledger       *)
(* covers the deposit and the host delivers the refund, for the owner and  *)
(* for every other account alike, and the refund it queues is addressed to *)
(* the owner stored in the task, whoever called.                           *)
(***************************************************************************)
C32_AnyCallerRemoves ==
    /\ [](\A h \in DOMAIN tasks, sender \in Owners :
             can_minus_tokens(Ledger, tasks[h].total_deposit) =>
                ENABLED (/\ remove_task(sender, h, TRUE)
                         /\ last'.result = "ok"
                         /\ last'.caller = sender
                         /\ h \notin DOMAIN tasks'))
    /\ [][ (last'.op = "remove_task" /\ last'.task_hash \in DOMAIN tasks) =>
             LET h == last'.task_hash
             IN /\ last'.result \in {"ok", "reverted"}
                /\ last'.result = "reverted" =>
                      last'.err \in {"ledger below deposit",
                                     "refund not delivered"}
                /\ last'.err = "ledger below deposit" <=>
                      ~can_minus_tokens(Ledger, tasks[h].total_deposit)
                /\ last'.messages # <<>> =>
                      /\ Len(last'.messages) = 1
                      /\ last'.messages[1].to_address = tasks[h].owner_id
                      /\ last'.messages[1].amount = tasks[h].total_deposit
                /\ last'.result = "ok" =>
                      /\ last'.messages # <<>>
                      /\ h \notin DOMAIN tasks' ]_vars

\* an account that is not the owner has removed a task; the refund goes to
\* the owner
C32_Witness ==
    /\ last.op = "remove_task" /\ last.result = "ok"
    /\ last.caller # last.messages[1].to_address
    /\ last.messages[1].amount # <<>>

(***************************************************************************)
(* C33: the paused flag gates create_task only.  remove_task and           *)
(* refill_task on a stored task do while the flag is set what they do      *)
(* while it is cleared: whether they succeed, what they answer and what    *)
(* they write is decided by the task, the caller, the funds and the ledger *)
(* alone, and they leave the flag as it is.                                *)
(***************************************************************************)
C33_PauseGatesCreationOnly ==
    /\ [](\A h \in DOMAIN tasks :
             /\ can_minus_tokens(Ledger, tasks[h].total_deposit) =>
                   ENABLED (/\ remove_task(tasks[h].owner_id, h, TRUE)
                            /\ last'.result = "ok"
                            /\ h \notin DOMAIN tasks'
                            /\ config'.paused = config.paused)
             /\ \A funds \in FundsSet :
                   InBounds(add_tokens(Ledger, funds)) =>
                      ENABLED (/\ refill_task(tasks[h].owner_id, funds, h)
                               /\ last'.result = "ok"
                               /\ Ledger' = add_tokens(Ledger, funds)
                               /\ config'.paused = config.paused))
    /\ [][ (last'.op \in {"remove_task", "refill_task"}
               /\ last'.task_hash \in DOMAIN tasks) =>
             LET h == last'.task_hash
             IN /\ config'.paused = config.paused
                /\ last'.op = "refill_task" =>
                      /\ last'.result = "ok" <=> last'.caller = tasks[h].owner_id
                      /\ last'.result # "ok" =>
                            last'.err = "Only owner can refill their task"
                      /\ last'.result = "ok" =>
                            /\ Ledger' = add_tokens(Ledger, last'.funds)
                            /\ [config' EXCEPT !.available_balance = Ledger]
                                  = config
                /\ last'.op = "remove_task" =>
                      /\ last'.result \in {"ok", "reverted"}
                      /\ last'.err \in {"", "ledger below deposit",
                                         "refund not delivered"}
                      /\ last'.err = "ledger below deposit" <=>
                            ~can_minus_tokens(Ledger, tasks[h].total_deposit)
                      /\ last'.result = "ok" =>
                            /\ h \notin DOMAIN tasks'
                            /\ Ledger' = minus_tokens(Ledger,
                                                      tasks[h].total_deposit)
                            /\ [config' EXCEPT !.available_balance = Ledger]
                                  = config ]_vars

\* a stored task has been refilled with funds while the system is paused
C33_Witness ==
    /\ config.paused
    /\ last.op = "refill_task" /\ last.result = "ok"
    /\ last.funds # <<>>
    /\ tasks[last.task_hash].total_deposit # <<>>

(***************************************************************************)
(* C34: after a task has been removed, a create_task of the same owner,    *)
(* schedule, boundary, stop_on_fail, actions and rules that passes the     *)
(* other checks succeeds again: it is not refused with "Task already       *)
(* exists", the task is stored under the hash it had, its deposit is the   *)
(* funds attached to the new call and nothing else, and the counter grows  *)
(* by one once more.                                                       *)
(***************************************************************************)
C34_CreateAgainAfterRemoval ==
    /\ []((last.op = "remove_task" /\ last.result = "ok") =>
             /\ last.task_hash \notin DOMAIN tasks
             /\ \A in \in CreateInputs, funds \in FundsSet :
                   LET item == NewTask(in[1], funds, in[2])
                       c2 == create_config(config, funds,
                                           increment_tasks(task_total),
                                           num_agents, env)
                   IN (/\ to_hash(item) = last.task_hash
                       /\ PassesChecks(funds, config, item, env)) =>
                      /\ create_task_error(funds, config, item, env, tasks) = ""
                      /\ (task_total < MaxTotal
                             /\ InBounds(c2.available_balance)) =>
                            ENABLED (/\ create_task(in[1], funds, in[2])
                                     /\ last'.result = "ok"
                                     /\ last'.task_hash = last.task_hash
                                     /\ tasks'[last.task_hash].total_deposit
                                           = funds
                                     /\ task_total' = task_total + 1))
    /\ [][ (/\ last.op = "remove_task" /\ last.result = "ok"
            /\ last'.op = "create_task") =>
             /\ last'.err # "Task already exists"
                   \/ tasks # EmptyMap
             /\ (last'.result = "ok" /\ last'.task_hash = last.task_hash) =>
                   /\ last.task_hash \notin DOMAIN tasks
                   /\ DOMAIN tasks' = DOMAIN tasks \cup {last.task_hash}
                   /\ tasks'[last.task_hash].owner_id
                         = last.messages[1].to_address
                   /\ tasks'[last.task_hash].total_deposit = last'.funds
                   /\ last'.funds # <<>>
                   /\ task_total' = task_total + 1 ]_vars

\* the only task ever created has just been removed with its refund, and a
\* create_task stores it again under its hash with the new funds
C34_Witness ==
    /\ last.op = "remove_task" /\ last.result = "ok"
    /\ last.messages[1].amount # <<>>
    /\ task_total = 1
    /\ tasks = EmptyMap
    /\ ENABLED (/\ CreateTask
                /\ last'.result = "ok"
                /\ last'.task_hash = last.task_hash
                /\ DOMAIN tasks' = {last.task_hash}
                /\ tasks'[last.task_hash].total_deposit = last'.funds
                /\ task_total' = 2)

====
